---- MODULE Spec2Model ----
(***************************************************************************)
(* Products REST API (src/index.js): the access guard requireAuth, the     *)
(* record merger upsertProduct, the row formatter formatRow, the products  *)
(* table with its primary key and NOT NULL columns, and the handlers of    *)
(* POST /products, PUT /products/:id, DELETE /products/:id and             *)
(* GET /products/:id.                                                      *)
(*                                                                         *)
(* JavaScript values are records [k, s, n]: k is the kind, s the           *)
(* characters of a string (or the items of an array), n the number, the    *)
(* truth value (1/0) or the instant of a date.  A string is a sequence of  *)
(* symbols; " " is the whitespace symbol, every other symbol stands for a  *)
(* run of non-blank characters.                                            *)
(***************************************************************************)
EXTENDS Integers, Sequences, FiniteSets, TLC

\* ---------------------------------------------------------------- bounds
MaxReq == 3      \* requests handled in one behaviour
MaxRows == 2     \* rows the products table may hold
MaxClock == 1    \* instants the wall clock runs through: 0..MaxClock

\* ---------------------------------------------------------------- values
Undef == [k |-> "undefined", s |-> <<>>, n |-> 0]
Null == [k |-> "null", s |-> <<>>, n |-> 0]
Str(chars) == [k |-> "string", s |-> chars, n |-> 0]
Num(x) == [k |-> "number", s |-> <<>>, n |-> x]
Bool(b) == [k |-> "boolean", s |-> <<>>, n |-> IF b THEN 1 ELSE 0]
Arr(items) == [k |-> "array", s |-> items, n |-> 0]
Date(t) == [k |-> "date", s |-> <<>>, n |-> t]

\* JavaScript truthiness, as used by ||, ! and the ternary operator.
Truthy(v) ==
  CASE v.k = "undefined" -> FALSE
    [] v.k = "null" -> FALSE
    [] v.k = "string" -> v.s # <<>>
    [] v.k = "number" -> v.n # 0
    [] v.k = "boolean" -> v.n = 1
    [] OTHER -> TRUE

\* a || b
Or(a, b) == IF Truthy(a) THEN a ELSE b

RECURSIVE TrimLeft(_)
TrimLeft(chars) ==
  IF chars = <<>> THEN <<>>
  ELSE IF Head(chars) = " " THEN TrimLeft(Tail(chars)) ELSE chars

RECURSIVE TrimRight(_)
TrimRight(chars) ==
  IF chars = <<>> THEN <<>>
  ELSE IF chars[Len(chars)] = " " THEN TrimRight(SubSeq(chars, 1, Len(chars) - 1))
  ELSE chars

\* String.prototype.trim
Trim(chars) == TrimRight(TrimLeft(chars))

\* A detail document: the keys note (any key other than priceOptions) and
\* priceOptions; k is "undefined" or "null" when there is no document.
NoDetail == [k |-> "undefined", note |-> Undef, priceOptions |-> Undef]
NullDetail == [k |-> "null", note |-> Undef, priceOptions |-> Undef]
Detail(note, po) == [k |-> "object", note |-> note, priceOptions |-> po]

\* The empty object {}: every key undefined.
EmptyObject ==
  [id |-> Undef, name |-> Undef, brand |-> Undef, category |-> Undef,
   size |-> Undef, image |-> Undef, alt |-> Undef, featured |-> Undef,
   detail |-> NoDetail, createdAt |-> Undef, updatedAt |-> Undef]

\* ------------------------------------------------------------ access guard
ADMIN_TOKEN == <<"dev-token">>

\* .replace(/^Bearer\s+/i, ""): a leading Bearer (any case) followed by one or
\* more blanks is removed.
StripBearer(chars) ==
  IF Len(chars) >= 2 /\ chars[1] \in {"Bearer", "bearer"} /\ chars[2] = " "
  THEN TrimLeft(SubSeq(chars, 2, Len(chars)))
  ELSE chars

\* Mutant: either header may carry the token.
requireAuthEither(headers) ==
  headers.xApiKey = ADMIN_TOKEN \/ StripBearer(headers.authorization) = ADMIN_TOKEN

\* TRUE when next() is called, FALSE when the 401 is sent.  An absent header
\* is the empty string (|| "").
requireAuth(headers) ==
  LET headerToken == headers.xApiKey
      bearer == StripBearer(headers.authorization)
      token == IF headerToken # <<>> THEN headerToken ELSE bearer
  IN ~(token = <<>> \/ token # ADMIN_TOKEN)

\* ------------------------------------------------------------- formatRow
formatRow(row) ==
  [id |-> row.id, name |-> row.name, brand |-> row.brand,
   category |-> row.category, size |-> row.size, image |-> row.image,
   alt |-> row.alt, featured |-> row.featured,
   detail |-> IF row.detail.k = "object" THEN row.detail ELSE Detail(Undef, Undef),
   createdAt |-> row.created_at, updatedAt |-> row.updated_at]

\* ---------------------------------------------------------- upsertProduct
\* {...a, ...b}[f]: b's value when b has the key.
Spread(a, b, f) == IF b[f].k # "undefined" THEN b[f] ELSE a[f]

\* Mutant: the payload's priceOptions is taken whatever its type.
priceOptionsAnyType(payload, base) ==
  IF payload.detail.k = "object" /\ payload.detail.priceOptions.k # "undefined"
  THEN payload.detail.priceOptions
  ELSE IF base.detail.k = "object" /\ Truthy(base.detail.priceOptions)
       THEN base.detail.priceOptions
       ELSE Arr(<<>>)

priceOptionsOf(payload, base) ==
  IF payload.detail.k = "object" /\ payload.detail.priceOptions.k = "array"
  THEN payload.detail.priceOptions
  ELSE IF base.detail.k = "object" /\ Truthy(base.detail.priceOptions)
       THEN base.detail.priceOptions
       ELSE Arr(<<>>)

detailOf(payload, base) ==
  Detail(
    IF payload.detail.k = "object" /\ payload.detail.note.k # "undefined"
    THEN payload.detail.note
    ELSE IF base.detail.k = "object" THEN base.detail.note ELSE Undef,
    priceOptionsOf(payload, base))

\* Mutant: createdAt is spread from the payload like any other field.
createdAtFromPayload(payload, base, now) ==
  Or(payload.createdAt, Or(base.createdAt, Date(now)))

createdAtOf(payload, base, now) == Or(base.createdAt, Date(now))

\* upsertProduct(payload, existing) at instant now, with uuid the value
\* crypto.randomUUID() would return.  existing is EmptyObject for null
\* (existing || {}).  threw: .trim() was called on a value that is not a
\* string (TypeError).  usedUuid: crypto.randomUUID() was called.
upsertProduct(payload, existing, now, uuid) ==
  LET base == existing
      idSource == Or(payload.id, Or(base.id, Str(<<>>)))
      threw == idSource.k # "string"
      trimmed == IF threw THEN <<>> ELSE Trim(idSource.s)
  IN [threw |-> threw,
      usedUuid |-> ~threw /\ trimmed = <<>>,
      product |->
        [id |-> IF trimmed # <<>> THEN Str(trimmed) ELSE Str(uuid),
         name |-> Spread(base, payload, "name"),
         brand |-> Spread(base, payload, "brand"),
         category |-> Spread(base, payload, "category"),
         size |-> Spread(base, payload, "size"),
         image |-> Spread(base, payload, "image"),
         alt |-> Spread(base, payload, "alt"),
         featured |-> Spread(base, payload, "featured"),
         detail |-> detailOf(payload, base),
         createdAt |-> createdAtOf(payload, base, now),
         updatedAt |-> Date(now)]]

\* ------------------------------------------------------- products table
\* A row of the table; rid is the identity of the stored tuple, which no
\* statement of the program reads or writes.
Row(rid, product) ==
  [rid |-> rid, id |-> product.id, name |-> product.name, brand |-> product.brand,
   category |-> Or(product.category, Null), size |-> Or(product.size, Null),
   image |-> Or(product.image, Null), alt |-> Or(product.alt, Null),
   featured |-> Or(product.featured, Bool(FALSE)),
   detail |-> product.detail,
   created_at |-> product.createdAt, updated_at |-> product.updatedAt]

\* select * from products where id = $1 limit 1
SelectById(table, id) == {r \in table : r.id = Str(id)}

\* Mutant: the id column carries no key.
NoPrimaryKey(table, id) == FALSE

\* id text primary key
ViolatesPrimaryKey(table, id) == \E r \in table : r.id = id

\* name text not null, brand text not null
ViolatesNotNull(product) ==
  product.name.k \in {"null", "undefined"} \/ product.brand.k \in {"null", "undefined"}

FreeRid(table) ==
  CHOOSE i \in 1..(Cardinality(table) + 1) : \A r \in table : r.rid # i

\* insert into products (...) values (...) returning *
\* error: the statement raised; rows: the rows it returned.
SqlInsert(table, product) ==
  IF ViolatesPrimaryKey(table, product.id) \/ ViolatesNotNull(product)
  THEN [error |-> TRUE, table |-> table, rows |-> {}]
  ELSE LET row == Row(FreeRid(table), product)
       IN [error |-> FALSE, table |-> table \cup {row}, rows |-> {row}]

\* The row after update products set name=$2, ..., updated_at=$10: id and
\* created_at are not assigned.
Updated(r, product) ==
  LET new == Row(r.rid, product)
  IN [new EXCEPT !.id = r.id, !.created_at = r.created_at]

\* update products set ... where id=$1 returning *
SqlUpdate(table, product) ==
  LET hit == {r \in table : r.id = product.id}
  IN IF hit # {} /\ ViolatesNotNull(product)
     THEN [error |-> TRUE, table |-> table, rows |-> {}]
     ELSE [error |-> FALSE,
           table |-> (table \ hit) \cup {Updated(r, product) : r \in hit},
           rows |-> {Updated(r, product) : r \in hit}]

\* delete from products where id = $1
SqlDelete(table, id) ==
  LET hit == SelectById(table, id)
  IN [error |-> FALSE, table |-> table \ hit, rowCount |-> Cardinality(hit)]

\* -------------------------------------------------------------- responses
Response(status, kind, body) == [status |-> status, kind |-> kind, body |-> body]
Failure(status) == Response(status, "error", EmptyObject)
Json(product) == Response(200, "product", product)
\* No response is written: the handler's promise rejected outside any try.
NoResponse == Response(0, "none", EmptyObject)
NoAnswerYet == Response(0, "start", EmptyObject)

\* What a handler run leaves behind: the table, the response, and the call of
\* upsertProduct it made (ran = FALSE when it made none).
NotMerged ==
  [ran |-> FALSE, existing |-> EmptyObject, uuid |-> <<>>,
   threw |-> FALSE, product |-> EmptyObject]
Merged(existing, uuid, m) ==
  [ran |-> TRUE, existing |-> existing, uuid |-> uuid,
   threw |-> m.threw, product |-> m.product]
Outcome(table, response, merge, usedUuid) ==
  [table |-> table, resp |-> response, merged |-> merge, usedUuid |-> usedUuid]

\* Mutant: only name is required.
ValidCreateNameOnly(payload) == Truthy(payload.name)

\* !(!payload.name || !payload.brand)
ValidCreate(payload) == Truthy(payload.name) /\ Truthy(payload.brand)

\* Mutant: the row count is not looked at.
DeleteStatusAlwaysOk(rowCount) == 200

\* result.rowCount === 0 ? 404 : 200
DeleteStatus(rowCount) == IF rowCount = 0 THEN 404 ELSE 200

\* app.post("/products", requireAuth, ...)
PostProducts(db, table, headers, payload, now, uuid) ==
  IF ~requireAuth(headers) THEN Outcome(table, Failure(401), NotMerged, FALSE)
  ELSE IF ~db THEN Outcome(table, Failure(500), NotMerged, FALSE)
  ELSE IF ~ValidCreate(payload) THEN Outcome(table, Failure(400), NotMerged, FALSE)
  ELSE
    LET m == upsertProduct(payload, EmptyObject, now, uuid)
        merge == Merged(EmptyObject, uuid, m)
        ins == SqlInsert(table, m.product)
    IN IF m.threw THEN Outcome(table, NoResponse, merge, FALSE)
       ELSE IF ins.error THEN Outcome(table, Failure(500), merge, m.usedUuid)
       ELSE Outcome(ins.table,
                    Response(201, "product", formatRow(CHOOSE r \in ins.rows : TRUE)),
                    merge, m.usedUuid)

\* The part of app.put after the select: merge, update, respond.
PutUpdate(table, existingRows, payload, now, uuid) ==
  IF existingRows = {} THEN Outcome(table, Failure(404), NotMerged, FALSE)
  ELSE
    LET existing == formatRow(CHOOSE r \in existingRows : TRUE)
        m == upsertProduct(payload, existing, now, uuid)
        merge == Merged(existing, uuid, m)
        upd == SqlUpdate(table, m.product)
    IN IF m.threw THEN Outcome(table, Failure(500), merge, FALSE)
       ELSE IF upd.error THEN Outcome(table, Failure(500), merge, m.usedUuid)
       ELSE IF upd.rows = {}
            \* formatRow(rows[0]) with rows empty: TypeError, caught
            THEN Outcome(upd.table, Failure(500), merge, m.usedUuid)
            ELSE Outcome(upd.table, Json(formatRow(CHOOSE r \in upd.rows : TRUE)),
                         merge, m.usedUuid)

\* app.put("/products/:id", requireAuth, ...), with nothing running between
\* its select and its update.
PutProduct(db, table, headers, id, payload, now, uuid) ==
  IF ~requireAuth(headers) THEN Outcome(table, Failure(401), NotMerged, FALSE)
  ELSE IF ~db THEN Outcome(table, Failure(500), NotMerged, FALSE)
  ELSE PutUpdate(table, SelectById(table, id), payload, now, uuid)

\* app.delete("/products/:id", requireAuth, ...)
DeleteProduct(db, table, headers, id) ==
  IF ~requireAuth(headers) THEN Outcome(table, Failure(401), NotMerged, FALSE)
  ELSE IF ~db THEN Outcome(table, Failure(500), NotMerged, FALSE)
  ELSE LET del == SqlDelete(table, id)
           status == DeleteStatus(del.rowCount)
       IN Outcome(del.table,
                  IF status = 200 THEN Response(200, "ok", EmptyObject)
                  ELSE Failure(status),
                  NotMerged, FALSE)

\* app.get("/products/:id", ...)
GetProduct(db, table, id) ==
  IF ~db THEN Outcome(table, Failure(500), NotMerged, FALSE)
  ELSE LET rows == SelectById(table, id)
       IN IF rows = {} THEN Outcome(table, Failure(404), NotMerged, FALSE)
          ELSE Outcome(table, Json(formatRow(CHOOSE r \in rows : TRUE)), NotMerged, FALSE)

\* ----------------------------------------------------------------- inputs
\* crypto.randomUUID(): the n-th identifier it returns; no two are equal and
\* none is one a client sends.
UuidSymbols == <<"uuid-1", "uuid-2", "uuid-3", "uuid-4", "uuid-5", "uuid-6">>
Uuid(n) == <<UuidSymbols[n]>>

Header(xApiKey, authorization) == [xApiKey |-> xApiKey, authorization |-> authorization]
NoHeaders == Header(<<>>, <<>>)

\* The x-api-key and Authorization headers of a request.
Credentials ==
  { NoHeaders,
    Header(<<"dev-token">>, <<>>),
    Header(<<>>, <<"Bearer", " ", "dev-token">>),
    Header(<<"wrong">>, <<"Bearer", " ", "dev-token">>) }

FarFuture == MaxClock + 5

NameAndBrand(b) == [b EXCEPT !.name = Str(<<"N1">>), !.brand = Str(<<"B1">>)]

\* Bodies of PUT /products/:id: partial records.
PutBodies ==
  { EmptyObject,
    [EmptyObject EXCEPT !.id = Str(<<"b">>)],
    [EmptyObject EXCEPT !.id = Str(<<" ", "a", " ">>)],
    [EmptyObject EXCEPT !.id = Str(<<" ">>)],
    [EmptyObject EXCEPT !.id = Num(5)],
    [EmptyObject EXCEPT !.name = Str(<<"N2">>)],
    [EmptyObject EXCEPT !.name = Null],
    [EmptyObject EXCEPT !.category = Str(<<"C1">>), !.size = Str(<<"S1">>),
                        !.image = Str(<<"I1">>), !.alt = Str(<<"A1">>)],
    [EmptyObject EXCEPT !.featured = Bool(TRUE)],
    [EmptyObject EXCEPT !.detail = NullDetail],
    [EmptyObject EXCEPT !.detail = Detail(Str(<<"n1">>), Undef)],
    [EmptyObject EXCEPT !.detail = Detail(Undef, Arr(<<"p1">>))],
    [EmptyObject EXCEPT !.detail = Detail(Undef, Str(<<"p1">>))],
    [EmptyObject EXCEPT !.createdAt = Date(FarFuture), !.updatedAt = Date(FarFuture)],
    [EmptyObject EXCEPT !.id = Str(<<"b">>), !.detail = Detail(Undef, Arr(<<"p2", "p1">>))] }

\* Bodies of POST /products: records to create, and records that lack a
\* required field.
PostBodies ==
  { NameAndBrand(EmptyObject),
    NameAndBrand([EmptyObject EXCEPT !.id = Str(<<"b">>)]),
    NameAndBrand([EmptyObject EXCEPT !.id = Str(<<" ", "a", " ">>)]),
    NameAndBrand([EmptyObject EXCEPT !.id = Str(<<" ">>)]),
    NameAndBrand([EmptyObject EXCEPT !.id = Num(5)]),
    NameAndBrand([EmptyObject EXCEPT !.detail = Detail(Undef, Str(<<"p1">>))]),
    NameAndBrand([EmptyObject EXCEPT
      !.createdAt = Date(FarFuture), !.updatedAt = Date(FarFuture)]),
    NameAndBrand([EmptyObject EXCEPT
      !.category = Str(<<"C1">>), !.featured = Bool(TRUE),
      !.detail = Detail(Str(<<"n0">>), Arr(<<"p0">>))]),
    EmptyObject,
    [EmptyObject EXCEPT !.name = Str(<<"N1">>)],
    [EmptyObject EXCEPT !.brand = Str(<<"B1">>)],
    [EmptyObject EXCEPT !.name = Str(<<>>), !.brand = Str(<<"B1">>)],
    [EmptyObject EXCEPT !.name = Str(<<"N1">>), !.brand = Str(<<>>)],
    [EmptyObject EXCEPT !.name = Null, !.brand = Str(<<"B1">>)] }

\* The :id of a path.
PathIds == { <<"a">>, <<"b">>, Uuid(1) }

Request(op, id, headers, body) == [op |-> op, id |-> id, headers |-> headers, body |-> body]
NoRequest == Request("none", <<>>, NoHeaders, EmptyObject)

\* Requests that overlap: the clients that send them, and what they send.
NumClients == 2
MaxBatches == 2
Clients == 1..NumClients
GoodHeaders == Header(<<"dev-token">>, <<>>)
ConcIds == { <<"a">>, <<"b">> }
ConcRequests ==
  { Request("POST", <<>>, GoodHeaders, NameAndBrand([EmptyObject EXCEPT !.id = Str(id)])) :
      id \in ConcIds }
  \cup
  { Request("PUT", id, GoodHeaders, body) :
      id \in ConcIds,
      body \in { [EmptyObject EXCEPT !.name = Str(<<"N2">>)],
                 [EmptyObject EXCEPT !.featured = Bool(TRUE)] } }
  \cup
  { Request("DELETE", id, GoodHeaders, EmptyObject) : id \in ConcIds }

\* A client's request: pc is where its handler stands, rows what its select
\* returned.
Client(pc, request, rows, response) ==
  [pc |-> pc, req |-> request, rows |-> rows, resp |-> response]
Idle == Client("idle", NoRequest, {}, NoAnswerYet)

\* ------------------------------------------------------------------ state
VARIABLES
  pool,      \* TRUE when DATABASE_URL is set and the Pool was constructed
  store,     \* the rows of the products table
  clock,     \* new Date()
  nextUuid,  \* how many identifiers crypto.randomUUID() has returned, plus one
  nreq,      \* requests handled so far
  req,       \* the last request handled
  resp,      \* the response it got
  merged,    \* the call of upsertProduct its handler made
  inflight,  \* overlapping requests: each client's request, position and response
  start      \* the table when the overlapping requests arrived

vars == <<pool, store, clock, nextUuid, nreq, req, resp, merged, inflight, start>>

\* The process after start-up: ensureTable has created the table, empty.
Init ==
  /\ pool \in BOOLEAN
  /\ store = {}
  /\ clock = 0
  /\ nextUuid = 1
  /\ nreq = 0
  /\ req = NoRequest
  /\ resp = NoAnswerYet
  /\ merged = NotMerged
  /\ inflight = [c \in Clients |-> Idle]
  /\ start = {}

\* One request is handled from its arrival to its response.
Handle(request, out) ==
  /\ req = NoRequest
  /\ nreq < MaxReq
  /\ nextUuid <= Len(UuidSymbols)
  /\ Cardinality(out.table) <= MaxRows
  /\ nreq' = nreq + 1
  /\ req' = request
  /\ store' = out.table
  /\ resp' = out.resp
  /\ merged' = out.merged
  /\ nextUuid' = IF out.usedUuid THEN nextUuid + 1 ELSE nextUuid
  /\ UNCHANGED <<pool, clock, inflight, start>>

Post ==
  \E h \in Credentials, body \in PostBodies :
    Handle(Request("POST", <<>>, h, body),
           PostProducts(pool, store, h, body, clock, Uuid(nextUuid)))

Put ==
  \E h \in Credentials, id \in PathIds, body \in PutBodies :
    Handle(Request("PUT", id, h, body),
           PutProduct(pool, store, h, id, body, clock, Uuid(nextUuid)))

Delete ==
  \E h \in Credentials, id \in PathIds :
    Handle(Request("DELETE", id, h, EmptyObject), DeleteProduct(pool, store, h, id))

Get ==
  \E id \in PathIds :
    Handle(Request("GET", id, NoHeaders, EmptyObject), GetProduct(pool, store, id))

\* The response is on the wire and the request is over.
Reply ==
  /\ req # NoRequest
  /\ req' = NoRequest
  /\ resp' = NoAnswerYet
  /\ merged' = NotMerged
  /\ UNCHANGED <<pool, store, clock, nextUuid, nreq, inflight, start>>

\* Time passes between two requests.
Tick ==
  /\ req = NoRequest
  /\ clock < MaxClock
  /\ clock' = clock + 1
  /\ UNCHANGED <<pool, store, nextUuid, nreq, req, resp, merged, inflight, start>>

Next == Post \/ Put \/ Delete \/ Get \/ Reply \/ Tick

Spec == Init /\ [][Next]_vars

\* ------------------------------------------------- overlapping requests
\* Every client sends one request; the handlers then run interleaved at their
\* awaits: each statement sent to the pool is one step.
BatchStart ==
  /\ \A c \in Clients : inflight[c].pc = "idle"
  /\ nreq < MaxBatches * NumClients
  /\ nreq' = nreq + NumClients
  /\ \E f \in [Clients -> ConcRequests] :
       inflight' = [c \in Clients |-> Client("arrived", f[c], {}, NoAnswerYet)]
  /\ start' = store
  /\ UNCHANGED <<pool, store, clock, nextUuid, req, resp, merged>>

\* A handler finishes: its statement has run and its response is written.
Finish(c, out) ==
  /\ nextUuid <= Len(UuidSymbols)
  /\ store' = out.table
  /\ inflight' = [inflight EXCEPT ![c] = Client("done", inflight[c].req, {}, out.resp)]
  /\ nextUuid' = IF out.usedUuid THEN nextUuid + 1 ELSE nextUuid
  /\ UNCHANGED <<pool, clock, nreq, req, resp, merged, start>>

\* app.post: one insert.
CPost(c) ==
  /\ inflight[c].pc = "arrived"
  /\ inflight[c].req.op = "POST"
  /\ Finish(c, PostProducts(pool, store, inflight[c].req.headers, inflight[c].req.body,
                            clock, Uuid(nextUuid)))

\* app.put up to the await of its select.
CPutSelect(c) ==
  /\ inflight[c].pc = "arrived"
  /\ inflight[c].req.op = "PUT"
  /\ IF ~requireAuth(inflight[c].req.headers)
     THEN Finish(c, Outcome(store, Failure(401), NotMerged, FALSE))
     ELSE IF ~pool
     THEN Finish(c, Outcome(store, Failure(500), NotMerged, FALSE))
     ELSE /\ inflight' = [inflight EXCEPT ![c] =
                Client("selected", inflight[c].req, SelectById(store, inflight[c].req.id),
                       NoAnswerYet)]
          /\ UNCHANGED <<pool, store, clock, nextUuid, nreq, req, resp, merged, start>>

\* app.put from the rows its select returned to its response.
CPutUpdate(c) ==
  /\ inflight[c].pc = "selected"
  /\ Finish(c, PutUpdate(store, inflight[c].rows, inflight[c].req.body, clock,
                         Uuid(nextUuid)))

\* app.delete: one delete.
CDelete(c) ==
  /\ inflight[c].pc = "arrived"
  /\ inflight[c].req.op = "DELETE"
  /\ Finish(c, DeleteProduct(pool, store, inflight[c].req.headers, inflight[c].req.id))

AllDone == \A c \in Clients : inflight[c].pc = "done"

\* Every response is on the wire.
BatchEnd ==
  /\ AllDone
  /\ inflight' = [c \in Clients |-> Idle]
  /\ UNCHANGED <<pool, store, clock, nextUuid, nreq, req, resp, merged, start>>

NextConc ==
  \/ BatchStart
  \/ \E c \in Clients : CPost(c)
  \/ \E c \in Clients : CPutSelect(c)
  \/ \E c \in Clients : CPutUpdate(c)
  \/ \E c \in Clients : CDelete(c)
  \/ BatchEnd

SpecConc == Init /\ [][NextConc]_vars

\* ----------------------------------------------------------- properties
\* A step that handles one request, from arrival to response.
Handled == nreq' = nreq + 1

\* The credential of a request: the x-api-key header when present, else the
\* Authorization header without its Bearer prefix.
Credential(headers) ==
  IF headers.xApiKey # <<>> THEN headers.xApiKey ELSE StripBearer(headers.authorization)
CredentialOk(headers) == Credential(headers) = ADMIN_TOKEN
Mutating(request) == request.op \in {"POST", "PUT", "DELETE"}

HasId(table, id) == \E r \in table : r.id = Str(id)
RowOf(table, id) == CHOOSE r \in table : r.id = Str(id)

\* C1: a mutating request whose credential is missing or differs from the
\* admin token is answered 401 and leaves the stored records as they were,
\* whatever its body, its path id and the stored records.
C1_UnauthorizedRejected ==
  [][(Handled /\ Mutating(req') /\ ~CredentialOk(req'.headers))
       => (resp'.status = 401 /\ store' = store)]_vars

\* C1 witness: a PUT with a wrong x-api-key and the right bearer token was
\* answered 401 while a record is stored.
C1_Witness ==
  /\ req.op = "PUT"
  /\ req.headers.xApiKey = <<"wrong">>
  /\ req.body.name = Str(<<"N2">>)
  /\ HasId(store, req.id)
  /\ resp.status = 401

\* C2: an authenticated PUT /products/:id on an existing record changes no
\* stored record other than the one whose id is :id, whatever the payload, and
\* its 200 response is the stored record of :id.
C2_UpdateInPlace ==
  [][(Handled /\ req'.op = "PUT" /\ CredentialOk(req'.headers) /\ HasId(store, req'.id))
       => /\ \A r \in store : r.id # Str(req'.id) => r \in store'
          /\ resp'.status = 200 =>
               /\ resp'.body.id = Str(req'.id)
               /\ HasId(store', req'.id)
               /\ resp'.body = formatRow(RowOf(store', req'.id))]_vars

\* The fields of a record other than detail and updatedAt (which every update
\* refreshes).
DataFields ==
  {"id", "name", "brand", "category", "size", "image", "alt", "featured", "createdAt"}

NamesPriceOptions(body) ==
  body.detail.k = "object" /\ body.detail.priceOptions.k = "array"
NamesNote(body) == body.detail.k = "object" /\ body.detail.note.k # "undefined"

\* C3: a successful authenticated PUT on an existing record leaves every
\* top-level field the payload does not name unchanged, leaves every detail
\* key that payload.detail does not name unchanged, and sets the stored
\* priceOptions to exactly payload.detail.priceOptions when that is a
\* sequence, leaving it unchanged otherwise.
C3_MergeLaw ==
  [][(Handled /\ req'.op = "PUT" /\ CredentialOk(req'.headers)
        /\ HasId(store, req'.id) /\ resp'.status = 200)
       => /\ HasId(store', req'.id)
          /\ LET old == formatRow(RowOf(store, req'.id))
                 new == formatRow(RowOf(store', req'.id))
             IN /\ \A f \in DataFields : req'.body[f] = Undef => new[f] = old[f]
                /\ ~NamesNote(req'.body) => new.detail.note = old.detail.note
                /\ new.detail.priceOptions =
                     IF NamesPriceOptions(req'.body)
                     THEN req'.body.detail.priceOptions
                     ELSE old.detail.priceOptions]_vars

\* C3, for payloads that carry no id: the merge law holds.
C3_MergeLawNoId ==
  [][(Handled /\ req'.op = "PUT" /\ CredentialOk(req'.headers)
        /\ HasId(store, req'.id) /\ resp'.status = 200 /\ req'.body.id = Undef)
       => /\ HasId(store', req'.id)
          /\ LET old == formatRow(RowOf(store, req'.id))
                 new == formatRow(RowOf(store', req'.id))
             IN /\ \A f \in DataFields : req'.body[f] = Undef => new[f] = old[f]
                /\ ~NamesNote(req'.body) => new.detail.note = old.detail.note
                /\ new.detail.priceOptions =
                     IF NamesPriceOptions(req'.body)
                     THEN req'.body.detail.priceOptions
                     ELSE old.detail.priceOptions]_vars

\* The outcome of running the clients' requests one after the other in the
\* given order, each handler from its first statement to its response.
Atomic(request, table) ==
  CASE request.op = "POST" ->
         PostProducts(pool, table, request.headers, request.body, clock, Uuid(nextUuid))
    [] request.op = "PUT" ->
         PutProduct(pool, table, request.headers, request.id, request.body, clock,
                    Uuid(nextUuid))
    [] OTHER -> DeleteProduct(pool, table, request.headers, request.id)

RECURSIVE SerialRun(_, _, _, _)
SerialRun(order, i, table, resps) ==
  IF i > Len(order) THEN [table |-> table, resps |-> resps]
  ELSE LET out == Atomic(inflight[order[i]].req, table)
       IN SerialRun(order, i + 1, out.table, [resps EXCEPT ![order[i]] = out.resp])

Orders == { o \in [1..NumClients -> Clients] : \A i, j \in 1..NumClients : o[i] = o[j] => i = j }

\* C4: when overlapping authenticated POST, PUT and DELETE requests have all
\* been answered, the stored records and every response are those of some
\* serial execution of the same requests.
C4_Serializable ==
  AllDone =>
    \E o \in Orders :
      LET run == SerialRun(o, 1, start, [c \in Clients |-> NoAnswerYet])
      IN /\ run.table = store
         /\ \A c \in Clients : run.resps[c] = inflight[c].resp

\* C5: every stored record has createdAt <= updatedAt; no step changes the
\* createdAt of a stored record, and no step lowers its updatedAt.
C5_Timestamps ==
  [][/\ \A r \in store' : r.created_at.n <= r.updated_at.n
     /\ \A r \in store, t \in store' :
          r.rid = t.rid => /\ t.created_at = r.created_at
                           /\ t.updated_at.n >= r.updated_at.n]_vars

\* C5 witness: an update whose payload carries createdAt succeeded on a record
\* created at an earlier instant.
C5_Witness ==
  /\ req.op = "PUT"
  /\ req.body.createdAt # Undef
  /\ resp.status = 200
  /\ \E r \in store : r.id = Str(req.id) /\ r.created_at.n < r.updated_at.n

NonBlank(v) == v.k = "string" /\ \E i \in 1..Len(v.s) : v.s[i] # " "

\* C6: a POST answered 201 returns a record with a non-blank id, createdAt
\* equal to updatedAt and a priceOptions sequence (empty when the payload names
\* none), and GET /products/<that id> then returns that same record.
C6_CreateRoundTrip ==
  [][(Handled /\ req'.op = "POST" /\ resp'.status = 201)
       => /\ Truthy(req'.body.name) /\ Truthy(req'.body.brand)
          /\ NonBlank(resp'.body.id)
          /\ resp'.body.createdAt = resp'.body.updatedAt
          /\ resp'.body.detail.priceOptions.k = "array"
          /\ (req'.body.detail.k # "object" \/ req'.body.detail.priceOptions = Undef)
               => resp'.body.detail.priceOptions = Arr(<<>>)
          /\ GetProduct(pool, store', resp'.body.id.s).resp = Json(resp'.body)]_vars

\* C6 witness: a create with a whitespace-only id was answered 201 with a
\* generated id and an empty priceOptions.
C6_Witness ==
  /\ req.op = "POST"
  /\ req.body.id = Str(<<" ">>)
  /\ resp.status = 201
  /\ resp.body.id = Str(Uuid(1))
  /\ resp.body.detail.priceOptions = Arr(<<>>)

UniqueIds(table) == \A r, t \in table : r.id = t.id => r = t

\* C8: no two stored records share an id, no step changes the id of a stored
\* record, and a POST whose payload id is the id of a stored record leaves the
\* stored records as they were.
C8_UniqueImmutableId ==
  [][/\ UniqueIds(store')
     /\ \A r \in store, t \in store' : r.rid = t.rid => t.id = r.id
     /\ (Handled /\ req'.op = "POST" /\ \E r \in store : r.id = req'.body.id)
          => store' = store]_vars

\* C8 witness: an authenticated, valid POST carrying the id of a stored record
\* was refused.
C8_Witness ==
  /\ req.op = "POST"
  /\ CredentialOk(req.headers)
  /\ \E r \in store : r.id = req.body.id
  /\ resp.status = 500
  /\ merged.ran

\* A required field is lacking or empty.
Lacks(v) == v.k \in {"undefined", "null"} \/ v = Str(<<>>)

\* C9 as stated: an authenticated POST that lacks name or brand, or has one of
\* them empty, is answered 400 and stores nothing.
C9_InvalidCreateAlways400 ==
  [][(Handled /\ req'.op = "POST" /\ CredentialOk(req'.headers)
        /\ (Lacks(req'.body.name) \/ Lacks(req'.body.brand)))
       => (resp'.status = 400 /\ store' = store)]_vars

\* C9 amended: when the database pool is configured, an authenticated POST
\* that lacks name or brand, or has one of them empty, is answered 400 and
\* stores nothing.
C9_InvalidCreate400 ==
  [][(Handled /\ pool /\ req'.op = "POST" /\ CredentialOk(req'.headers)
        /\ (Lacks(req'.body.name) \/ Lacks(req'.body.brand)))
       => (resp'.status = 400 /\ store' = store)]_vars

\* C9 witness: a POST with a name and an empty brand was answered 400.
C9_Witness ==
  /\ pool
  /\ req.op = "POST"
  /\ CredentialOk(req.headers)
  /\ req.body.name = Str(<<"N1">>)
  /\ req.body.brand = Str(<<>>)
  /\ resp.status = 400

\* The id the merger is said to resolve.
ResolvedId(payload, existing, uuid) ==
  IF payload.id.k = "string" /\ Trim(payload.id.s) # <<>> THEN Str(Trim(payload.id.s))
  ELSE IF existing # EmptyObject THEN existing.id
  ELSE Str(uuid)

\* C10: the merger's result has the payload's id trimmed when that is present
\* and non-blank; otherwise the existing record's id when there is an existing
\* record; otherwise a newly generated identifier.
C10_IdResolution ==
  (merged.ran /\ ~merged.threw)
    => merged.product.id = ResolvedId(req.body, merged.existing, merged.uuid)

====
